---- MODULE Spec2Model ----
(***************************************************************************)
(* Model of src/sites/home/decoder/decoder.js: the byte-to-binary          *)
(* converter covertToBinary, the table renderer renderOutput, the payload  *)
(* decoder decodePayload and the asynchronous entry point runDecoder.      *)
(*                                                                         *)
(* Text is a sequence of one-character strings, so "10" is <<"1", "0">>.   *)
(* A byte string (Uint8Array) is a sequence of integers in 0..255.         *)
(***************************************************************************)
EXTENDS Integers, Sequences, FiniteSets, TLC

VARIABLES
    bArg,          \* SpecBinary: the argument handed to covertToBinary
    bOut,          \* SpecBinary: what covertToBinary returned (NotCalled before)
    dPayload,      \* SpecDecode: the payload handed to decodePayload
    dOutcome,      \* SpecDecode: how the decodePayload promise settled
    rPrev,         \* SpecRender: the table body before the call
    rArg,          \* SpecRender: the argument handed to renderOutput
    rBody,         \* SpecRender: the table body after the call
    rCalled,       \* SpecRender: renderOutput has run
    input,         \* Spec: the text in the .decoder__input element
    started,       \* Spec: number of runDecoder invocations started so far
    pc,            \* Spec: where each invocation is
    payload,       \* Spec: the payload each invocation read at its start
    display,       \* Spec: the rows of the decoder-output-body table body
    shown,         \* Spec: the body each invocation wrote when it completed
    resolveOrder,  \* Spec: invocations in the order their awaits settled
    startedAt      \* Spec: how many awaits had settled when each one started

vars == <<bArg, bOut, dPayload, dOutcome, rPrev, rArg, rBody, rCalled,
          input, started, pc, payload, display, shown, resolveOrder, startedAt>>

binaryVars == <<bArg, bOut>>
decodeVars == <<dPayload, dOutcome>>
renderVars == <<rPrev, rArg, rBody, rCalled>>
runVars    == <<input, started, pc, payload, display, shown, resolveOrder, startedAt>>

(***************************************************************************)
(* Bounds.                                                                 *)
(***************************************************************************)
\* longest byte string handed to covertToBinary on its own
MaxBytes == 2
\* longest `data` array handed to decodePayload
MaxItems == 3
\* number of runDecoder invocations
MaxRuns == 2

(***************************************************************************)
(* Text and number conversions of the JavaScript runtime, as the code      *)
(* uses them.                                                              *)
(***************************************************************************)
DigitChars == <<"0", "1", "2", "3", "4", "5", "6", "7",
                "8", "9", "a", "b", "c", "d", "e", "f">>

\* n.toString(radix) of a non-negative Number or BigInt
RECURSIVE toString(_, _)
toString(n, radix) ==
    IF n < radix THEN <<DigitChars[n + 1]>>
    ELSE toString(n \div radix, radix) \o <<DigitChars[(n % radix) + 1]>>

\* s.padStart(len, ch)
RECURSIVE padStart(_, _, _)
padStart(s, len, ch) ==
    IF Len(s) >= len THEN s ELSE padStart(<<ch>> \o s, len, ch)

\* parts.join('')
RECURSIVE join(_)
join(parts) ==
    IF parts = <<>> THEN <<>> ELSE Head(parts) \o join(Tail(parts))

\* faulty variant of ByteToHex: the padding to two digits is forgotten
ByteToHexUnpadded(byte) == toString(byte, 16)

\* byte => byte.toString(16).padStart(2, '0')
ByteToHex(byte) == padStart(toString(byte, 16), 2, "0")

\* Array.from(bytes, byte => byte.toString(16).padStart(2, '0')).join('')
BytesToHex(bytes) == join([i \in 1..Len(bytes) |-> ByteToHex(bytes[i])])

\* hex || '0'
OrZero(s) == IF s = <<>> THEN <<"0">> ELSE s

HexValue(ch) == (CHOOSE d \in 1..16 : DigitChars[d] = ch) - 1

RECURSIVE HexNumber(_)
HexNumber(hex) ==
    IF hex = <<>> THEN 0
    ELSE 16 * HexNumber(SubSeq(hex, 1, Len(hex) - 1)) + HexValue(hex[Len(hex)])

\* BigInt(`0x${hex}`): the number, or a SyntaxError when a character is no hex digit
BigIntOfHex(hex) ==
    IF hex # <<>> /\ \A i \in 1..Len(hex) : \E d \in 1..16 : DigitChars[d] = hex[i]
    THEN [thrown |-> FALSE, n |-> HexNumber(hex)]
    ELSE [thrown |-> TRUE, n |-> 0]

(***************************************************************************)
(* Values decoded from CBOR.  A field of an item is a byte string, absent  *)
(* (undefined), or of another type (a CBOR integer, text, ...).            *)
(***************************************************************************)
Bytes(bs) == [type |-> "bytes", bytes |-> bs]
Absent    == [type |-> "absent", bytes |-> <<>>]
NotBytes  == [type |-> "other", bytes |-> <<>>]

ErrorText == <<"E", "r", "r", "o", "r">>

(***************************************************************************)
(* covertToBinary                                                          *)
(***************************************************************************)
\* faulty variant of covertToBinary: the numeral is padded to eight digits a byte
covertToBinaryPadded(bytes) ==
    IF bytes.type = "absent" \/ Len(bytes.bytes) = 0 THEN <<"0">>
    ELSE LET hex == BytesToHex(bytes.bytes)
             bigIntValue == BigIntOfHex(OrZero(hex))
         IN  IF bigIntValue.thrown THEN ErrorText
             ELSE padStart(toString(bigIntValue.n, 2), 8 * Len(bytes.bytes), "0")

covertToBinary(bytes) ==
    IF bytes.type = "absent" \/ Len(bytes.bytes) = 0 THEN <<"0">>
    ELSE LET hex == BytesToHex(bytes.bytes)
             bigIntValue == BigIntOfHex(OrZero(hex))
         IN  IF bigIntValue.thrown THEN ErrorText
             ELSE OrZero(toString(bigIntValue.n, 2))

(***************************************************************************)
(* SpecBinary: covertToBinary applied to every bounded byte string.        *)
(***************************************************************************)
SampleBytes == {0, 1, 2, 15, 16, 127, 128, 255}

RECURSIVE SeqsUpTo(_, _)
SeqsUpTo(S, n) ==
    IF n = 0 THEN {<<>>}
    ELSE LET shorter == SeqsUpTo(S, n - 1)
         IN  shorter \cup {Append(s, x) : s \in shorter, x \in S}

\* absent, or a byte string of at most n sample bytes
BinaryArgs(n) == {Absent} \cup {Bytes(bs) : bs \in SeqsUpTo(SampleBytes, n)}

NotCalled == <<"?">>

BinaryInit ==
    /\ bArg \in BinaryArgs(MaxBytes)
    /\ bOut = NotCalled

CallCovertToBinary ==
    /\ bOut = NotCalled
    /\ bOut' = covertToBinary(bArg)
    /\ UNCHANGED bArg

(***************************************************************************)
(* The payload text and what the two library calls make of it.  A payload  *)
(* is the empty string, text atob rejects, text whose bytes                *)
(* cbor.decodeFirst rejects, or the base64 of CBOR that decodes to         *)
(* `decoded`.  A decoded value is falsy (null, 0, false), a truthy value   *)
(* that is no object with fields, or an object whose `data` is absent, of  *)
(* another type, or an array of items.  An item is null, a truthy          *)
(* non-object, or an object with fields bucket and value.                  *)
(***************************************************************************)
NullItem   == [kind |-> "null", bucket |-> Absent, value |-> Absent]
ScalarItem == [kind |-> "scalar", bucket |-> Absent, value |-> Absent]
Item(b, v) == [kind |-> "object", bucket |-> b, value |-> v]

DataArray(items) == [type |-> "array", items |-> items]
DataAbsent       == [type |-> "absent", items |-> <<>>]
DataNotArray     == [type |-> "other", items |-> <<>>]

FalsyValue   == [kind |-> "falsy", data |-> DataAbsent]
ScalarValue  == [kind |-> "scalar", data |-> DataAbsent]
Envelope(d)  == [kind |-> "object", data |-> d]

EmptyText    == [tag |-> "empty", decoded |-> FalsyValue]
BadBase64    == [tag |-> "badBase64", decoded |-> FalsyValue]
BadCbor      == [tag |-> "badCbor", decoded |-> FalsyValue]
CborOf(v)    == [tag |-> "cbor", decoded |-> v]

\* atob(payload): throws on text that is no base64
atob(p) == [thrown |-> p.tag = "badBase64", message |-> "InvalidCharacterError"]

\* cbor.decodeFirst(arr): rejects on bytes that are no CBOR, else resolves
cborDecodeFirst(p) ==
    [rejected |-> p.tag = "badCbor", message |-> "CborDecodeError", value |-> p.decoded]

\* item.bucket, item.value: undefined on a value that is no object
FieldOf(item, name) ==
    IF item.kind # "object" THEN Absent
    ELSE IF name = "bucket" THEN item.bucket ELSE item.value

\* item && (item.x instanceof Uint8Array || item.x instanceof Buffer)
IsFieldValid(item, name) ==
    item.kind # "null" /\ FieldOf(item, name).type = "bytes"

Null == [null |-> TRUE,
         rec |-> [bucketInBinary |-> <<>>, valueInBinary |-> <<>>,
                  bucketInDecimal |-> <<>>, valueInDecimal |-> <<>>]]
Contribution(bb, vb, bd, vd) ==
    [null |-> FALSE,
     rec |-> [bucketInBinary |-> bb, valueInBinary |-> vb,
              bucketInDecimal |-> bd, valueInDecimal |-> vd]]

\* faulty variant of ConvertItem: the zero check is missing
ConvertItemKeepsZero(item) ==
    LET valueBigInt == BigIntOfHex(OrZero(BytesToHex(item.value.bytes)))
        bucketBigInt == BigIntOfHex(OrZero(BytesToHex(item.bucket.bytes)))
    IN  IF valueBigInt.thrown \/ bucketBigInt.thrown THEN Null
        ELSE Contribution(covertToBinary(item.bucket),
                          OrZero(toString(valueBigInt.n, 2)),
                          toString(bucketBigInt.n, 10),
                          toString(valueBigInt.n, 10))

\* the body of the try block for one valid item
ConvertItem(item) ==
    LET valueHex == BytesToHex(item.value.bytes)
        valueBigInt == BigIntOfHex(OrZero(valueHex))
    IN  IF valueBigInt.thrown THEN Null
        ELSE IF valueBigInt.n = 0 THEN Null
        ELSE LET bucketInBinary == covertToBinary(item.bucket)
                 valueInBinary == OrZero(toString(valueBigInt.n, 2))
                 bucketBigInt == BigIntOfHex(OrZero(BytesToHex(item.bucket.bytes)))
             IN  IF bucketBigInt.thrown THEN Null
                 ELSE Contribution(bucketInBinary, valueInBinary,
                                   toString(bucketBigInt.n, 10),
                                   toString(valueBigInt.n, 10))

\* the callback of decoded.data.map
MapItem(item) ==
    IF ~IsFieldValid(item, "bucket") \/ ~IsFieldValid(item, "value") THEN Null
    ELSE ConvertItem(item)

\* faulty variant of FilterNotNull: the kept records come out in reverse order
RECURSIVE FilterNotNullReversed(_)
FilterNotNullReversed(all) ==
    IF all = <<>> THEN <<>>
    ELSE IF Head(all).null THEN FilterNotNullReversed(Tail(all))
    ELSE FilterNotNullReversed(Tail(all)) \o <<Head(all).rec>>

\* faulty variant of FilterNotNull: the first skipped item ends the batch
RECURSIVE FilterUntilNull(_)
FilterUntilNull(all) ==
    IF all = <<>> THEN <<>>
    ELSE IF Head(all).null THEN <<>>
    ELSE <<Head(all).rec>> \o FilterUntilNull(Tail(all))

\* allContributions.filter(item => item !== null)
RECURSIVE FilterNotNull(_)
FilterNotNull(all) ==
    IF all = <<>> THEN <<>>
    ELSE IF Head(all).null THEN FilterNotNull(Tail(all))
    ELSE <<Head(all).rec>> \o FilterNotNull(Tail(all))

\* !decoded || !Array.isArray(decoded.data)
StructureMismatch(decoded) ==
    decoded.kind = "falsy" \/ decoded.kind # "object" \/ decoded.data.type # "array"

Raised(msg)   == [raised |-> TRUE, message |-> msg, value |-> <<>>]
Returned(val) == [raised |-> FALSE, message |-> "", value |-> val]

\* faulty variant of ProcessDecoded: a structure mismatch is thrown, not returned
ProcessDecodedRaises(decoded) ==
    IF StructureMismatch(decoded) THEN Raised("StructureMismatch")
    ELSE Returned(FilterNotNull([i \in 1..Len(decoded.data.items) |->
                                   MapItem(decoded.data.items[i])]))

\* what decodePayload does once cbor.decodeFirst has resolved with `decoded`
ProcessDecoded(decoded) ==
    IF StructureMismatch(decoded) THEN Returned(<<>>)
    ELSE LET items == decoded.data.items
             allContributions == [i \in 1..Len(items) |-> MapItem(items[i])]
         IN  Returned(FilterNotNull(allContributions))

\* how the promise of decodePayload(payload) settles
decodePayload(p) ==
    IF atob(p).thrown THEN Raised(atob(p).message)
    ELSE IF cborDecodeFirst(p).rejected THEN Raised(cborDecodeFirst(p).message)
    ELSE ProcessDecoded(cborDecodeFirst(p).value)

(***************************************************************************)
(* SpecDecode: decodePayload applied to every bounded payload.             *)
(***************************************************************************)
\* items that are skipped for their shape or the type of a field
InvalidItems ==
    {NullItem, ScalarItem,
     Item(Absent, Bytes(<<1>>)), Item(NotBytes, Bytes(<<1>>)),
     Item(Bytes(<<255>>), Absent), Item(Bytes(<<255>>), NotBytes)}

\* items whose value is the integer 0
ZeroItems ==
    {Item(Bytes(<<255>>), Bytes(<<>>)), Item(Bytes(<<255>>), Bytes(<<0, 0>>)),
     Item(Bytes(<<0>>), Bytes(<<0>>))}

\* items that are kept
KeptItems ==
    {Item(Bytes(<<255>>), Bytes(<<1>>)), Item(Bytes(<<1>>), Bytes(<<2>>)),
     Item(Bytes(<<>>), Bytes(<<1, 0>>)), Item(Bytes(<<0, 16>>), Bytes(<<0, 16>>))}

Items == InvalidItems \cup ZeroItems \cup KeptItems

\* the decoded values whose `data`, when an array, has at most n items
DecodedValues(n) ==
    {FalsyValue, ScalarValue, Envelope(DataAbsent), Envelope(DataNotArray)}
        \cup {Envelope(DataArray(items)) : items \in SeqsUpTo(Items, n)}

DecodePayloads(n) == {BadBase64, BadCbor} \cup {CborOf(v) : v \in DecodedValues(n)}

Pending == [raised |-> FALSE, message |-> "pending", value |-> <<>>]

DecodeInit ==
    /\ dPayload \in DecodePayloads(MaxItems)
    /\ dOutcome = Pending

CallDecodePayload ==
    /\ dOutcome = Pending
    /\ dOutcome' = decodePayload(dPayload)
    /\ UNCHANGED dPayload

(***************************************************************************)
(* renderOutput and the table body.  The body is the sequence of its rows; *)
(* a row has a class name and cells; a cell has a column span and content. *)
(***************************************************************************)
Cell(span, content) == [colSpan |-> span, content |-> content]
Row(cls, cells)     == [className |-> cls, cells |-> cells]

\* `<code>${text}</code>`
Code(text) == <<"<code>">> \o text \o <<"</code>">>

NoDataRow ==
    Row("no-data-row",
        <<Cell(4, <<"No valid contributions with non-zero value found.">>)>>)

\* the row runDecoder's catch block writes
ErrorRow(message) ==
    Row("no-data-row",
        <<Cell(4, <<"Error during decoding: ", message, ". Check console.">>)>>)

\* the callback of contributions.forEach
DataRow(contribution) ==
    Row("", <<Cell(1, Code(contribution.bucketInBinary)),
              Cell(1, Code(contribution.valueInBinary)),
              Cell(1, Code(contribution.bucketInDecimal)),
              Cell(1, Code(contribution.valueInDecimal))>>)

\* the argument of renderOutput: an array, or null/undefined
ListArg(list) == [type |-> "array", list |-> list]
NullArg       == [type |-> "absent", list |-> <<>>]

\* faulty variant of renderOutput: the previous rows are not cleared
renderOutputKeepsRows(tableBody, contributions) ==
    IF contributions.type = "absent" \/ Len(contributions.list) = 0
    THEN Append(tableBody, NoDataRow)
    ELSE tableBody \o [i \in 1..Len(contributions.list) |->
                          DataRow(contributions.list[i])]

\* the table body renderOutput leaves, given the body it finds
renderOutput(tableBody, contributions) ==
    LET cleared == SubSeq(tableBody, 1, 0)
    IN  IF contributions.type = "absent" \/ Len(contributions.list) = 0
        THEN Append(cleared, NoDataRow)
        ELSE cleared \o [i \in 1..Len(contributions.list) |->
                            DataRow(contributions.list[i])]

(***************************************************************************)
(* SpecRender: renderOutput applied to bounded lists over bounded bodies.  *)
(***************************************************************************)
SampleRecords ==
    {MapItem(Item(Bytes(<<1>>), Bytes(<<2>>))).rec,
     MapItem(Item(Bytes(<<255>>), Bytes(<<1>>))).rec,
     MapItem(Item(Bytes(<<>>), Bytes(<<1, 0>>))).rec}

\* null, or a list of at most n sample records
RenderArgs(n) == {NullArg} \cup {ListArg(l) : l \in SeqsUpTo(SampleRecords, n)}

PreviousBodies ==
    {<<>>, <<NoDataRow>>, <<ErrorRow("InvalidCharacterError")>>}
        \cup {[i \in 1..Len(l) |-> DataRow(l[i])] : l \in SeqsUpTo(SampleRecords, 2)}

RenderInit ==
    /\ rPrev \in PreviousBodies
    /\ rArg \in RenderArgs(MaxItems)
    /\ rBody = rPrev
    /\ rCalled = FALSE

CallRenderOutput ==
    /\ ~rCalled
    /\ rBody' = renderOutput(rBody, rArg)
    /\ rCalled' = TRUE
    /\ UNCHANGED <<rPrev, rArg>>

(***************************************************************************)
(* Spec: runDecoder invocations over one input element and one table.      *)
(* An invocation runs to its await of decodePayload, or to its return on   *)
(* an empty payload, in one step; its continuation after the await is a    *)
(* second step, which other invocations' steps may precede.                *)
(***************************************************************************)
SurvivorA == Item(Bytes(<<255>>), Bytes(<<1>>))
SurvivorB == Item(Bytes(<<0, 16>>), Bytes(<<0, 16>>))
ZeroItem  == Item(Bytes(<<0>>), Bytes(<<0>>))

RunPayloads ==
    {EmptyText, BadBase64, BadCbor,
     CborOf(Envelope(DataAbsent)),
     CborOf(Envelope(DataArray(<<ZeroItem>>))),
     CborOf(Envelope(DataArray(<<SurvivorB>>))),
     CborOf(Envelope(DataArray(<<SurvivorA, ZeroItem, SurvivorB>>)))}

Runs == 1..MaxRuns

\* the table body of the page before any invocation
InitialBodies == {<<>>, <<NoDataRow>>}

RunInit ==
    /\ input \in RunPayloads
    /\ started = 0
    /\ pc = [i \in Runs |-> "idle"]
    /\ payload = [i \in Runs |-> EmptyText]
    /\ display \in InitialBodies
    /\ shown = [i \in Runs |-> <<>>]
    /\ resolveOrder = <<>>
    /\ startedAt = [i \in Runs |-> 0]

\* the user edits the input element
SetInput(p) ==
    /\ p # input
    /\ input' = p
    /\ UNCHANGED <<started, pc, payload, display, shown, resolveOrder, startedAt>>

\* runDecoder from its call to its first suspension or its early return
StartRun ==
    /\ started < MaxRuns
    /\ LET i == started + 1
           cleared == renderOutput(display, ListArg(<<>>))
       IN  /\ started' = i
           /\ payload' = [payload EXCEPT ![i] = input]
           /\ startedAt' = [startedAt EXCEPT ![i] = Len(resolveOrder)]
           /\ display' = cleared
           /\ IF input.tag = "empty"
              THEN /\ pc' = [pc EXCEPT ![i] = "done"]
                   /\ shown' = [shown EXCEPT ![i] = cleared]
              ELSE /\ pc' = [pc EXCEPT ![i] = "awaiting"]
                   /\ shown' = shown
    /\ UNCHANGED <<input, resolveOrder>>

\* faulty variant of AfterAwait: the error row is added to the rows already there
AfterAwaitAppends(tableBody, outcome) ==
    IF outcome.raised THEN Append(tableBody, ErrorRow(outcome.message))
    ELSE renderOutput(tableBody, ListArg(outcome.value))

\* the table body runDecoder leaves once its await has settled with `outcome`
AfterAwait(tableBody, outcome) ==
    IF outcome.raised THEN <<ErrorRow(outcome.message)>>
    ELSE renderOutput(tableBody, ListArg(outcome.value))

\* faulty variant of ResumeRun: only the invocation started last writes the table
ResumeRunIfLatest(i) ==
    /\ pc[i] = "awaiting"
    /\ display' = IF i = started THEN AfterAwait(display, decodePayload(payload[i]))
                  ELSE display
    /\ shown' = [shown EXCEPT ![i] = display']
    /\ pc' = [pc EXCEPT ![i] = "done"]
    /\ resolveOrder' = Append(resolveOrder, i)
    /\ UNCHANGED <<input, started, payload, startedAt>>

\* runDecoder from the settling of its await to its end
ResumeRun(i) ==
    /\ pc[i] = "awaiting"
    /\ display' = AfterAwait(display, decodePayload(payload[i]))
    /\ shown' = [shown EXCEPT ![i] = display']
    /\ pc' = [pc EXCEPT ![i] = "done"]
    /\ resolveOrder' = Append(resolveOrder, i)
    /\ UNCHANGED <<input, started, payload, startedAt>>

(***************************************************************************)
(* The specifications.  Each one leaves the other parts' variables at      *)
(* rest.                                                                   *)
(***************************************************************************)
BinaryRest ==
    /\ bArg = Absent
    /\ bOut = NotCalled
DecodeRest ==
    /\ dPayload = BadBase64
    /\ dOutcome = Pending
RenderRest ==
    /\ rPrev = <<>>
    /\ rArg = NullArg
    /\ rBody = <<>>
    /\ rCalled = FALSE
RunRest ==
    /\ input = EmptyText
    /\ started = 0
    /\ pc = [i \in Runs |-> "idle"]
    /\ payload = [i \in Runs |-> EmptyText]
    /\ display = <<>>
    /\ shown = [i \in Runs |-> <<>>]
    /\ resolveOrder = <<>>
    /\ startedAt = [i \in Runs |-> 0]

Init == RunInit /\ BinaryRest /\ DecodeRest /\ RenderRest

Next ==
    \/ (\E p \in RunPayloads : SetInput(p)) /\ UNCHANGED <<binaryVars, decodeVars, renderVars>>
    \/ StartRun /\ UNCHANGED <<binaryVars, decodeVars, renderVars>>
    \/ (\E i \in Runs : ResumeRun(i)) /\ UNCHANGED <<binaryVars, decodeVars, renderVars>>

Spec == Init /\ [][Next]_vars

BinaryNext == CallCovertToBinary /\ UNCHANGED <<decodeVars, renderVars, runVars>>
InitBinary == BinaryInit /\ DecodeRest /\ RenderRest /\ RunRest
SpecBinary == InitBinary /\ [][BinaryNext]_vars

DecodeNext == CallDecodePayload /\ UNCHANGED <<binaryVars, renderVars, runVars>>
InitDecode == DecodeInit /\ BinaryRest /\ RenderRest /\ RunRest
SpecDecode == InitDecode /\ [][DecodeNext]_vars

RenderNext == CallRenderOutput /\ UNCHANGED <<binaryVars, decodeVars, runVars>>
InitRender == RenderInit /\ BinaryRest /\ DecodeRest /\ RunRest
SpecRender == InitRender /\ [][RenderNext]_vars

(***************************************************************************)
(* Reference notions the properties are stated with: the integer a byte    *)
(* string denotes, the integer a numeral denotes, and which items are      *)
(* kept.  None of them goes through hexadecimal text.                      *)
(***************************************************************************)
RECURSIVE BytesValue(_)
BytesValue(bs) ==
    IF bs = <<>> THEN 0
    ELSE 256 * BytesValue(SubSeq(bs, 1, Len(bs) - 1)) + bs[Len(bs)]

DecimalDigits == <<"0", "1", "2", "3", "4", "5", "6", "7", "8", "9">>

DigitsOf(radix) == {DecimalDigits[d] : d \in 1..radix}

RECURSIVE NumeralValue(_, _)
NumeralValue(text, radix) ==
    IF text = <<>> THEN 0
    ELSE radix * NumeralValue(SubSeq(text, 1, Len(text) - 1), radix)
         + ((CHOOSE d \in 1..radix : DecimalDigits[d] = text[Len(text)]) - 1)

\* text is the numeral of n in the radix, without superfluous leading zero
IsCanonical(text, radix, n) ==
    /\ Len(text) >= 1
    /\ \A i \in 1..Len(text) : text[i] \in DigitsOf(radix)
    /\ (text[1] = "0" => text = <<"0">>)
    /\ NumeralValue(text, radix) = n

\* the item has byte-string bucket and value, and its value is not zero
Survives(item) ==
    /\ item.kind = "object"
    /\ item.bucket.type = "bytes"
    /\ item.value.type = "bytes"
    /\ BytesValue(item.value.bytes) # 0

RECURSIVE SurvivorsFrom(_, _)
SurvivorsFrom(items, i) ==
    IF i > Len(items) THEN <<>>
    ELSE (IF Survives(items[i]) THEN <<i>> ELSE <<>>) \o SurvivorsFrom(items, i + 1)

\* the indices of the kept items, ascending
SurvivorIndices(items) == SurvivorsFrom(items, 1)

RemoveAt(seq, i) == SubSeq(seq, 1, i - 1) \o SubSeq(seq, i + 1, Len(seq))

HasDataArray(p) ==
    p.tag = "cbor" /\ p.decoded.kind = "object" /\ p.decoded.data.type = "array"

DecodeSettled == dOutcome # Pending
DecodedItems  == dPayload.decoded.data.items

(***************************************************************************)
(* Properties of covertToBinary (SpecBinary).                              *)
(***************************************************************************)
\* C6: for every byte string B, covertToBinary(B) is the canonical base-2
\* numeral of B read as an unsigned big-endian integer: only '0' and '1', no
\* leading zero unless it is exactly "0", parsing back in base 2 to the
\* integer of B's bytes; and it is "0" when B is absent, empty or all zero.
C6_BinaryIsCanonical ==
    bOut # NotCalled =>
        LET n == IF bArg.type = "absent" THEN 0 ELSE BytesValue(bArg.bytes)
        IN  /\ IsCanonical(bOut, 2, n)
            /\ (n = 0 => bOut = <<"0">>)

\* the two bytes 0x01 0x80 have been converted to the numeral of 384
C6_Witness ==
    /\ bArg = Bytes(<<1, 128>>)
    /\ bOut = <<"1", "1", "0", "0", "0", "0", "0", "0", "0">>

(***************************************************************************)
(* Properties of decodePayload (SpecDecode).                               *)
(***************************************************************************)
\* C1: no returned record comes from an item whose value bytes denote 0
\* (empty, or any number of 0x00 bytes), whatever its bucket: there are no
\* more records than items with a non-zero byte-string value, and every
\* returned record has a value integer of at least 1.
C1_ZeroValueNeverReturned ==
    (DecodeSettled /\ HasDataArray(dPayload)) =>
        /\ ~dOutcome.raised
        /\ Len(dOutcome.value) <=
              Cardinality({i \in 1..Len(DecodedItems) :
                             /\ DecodedItems[i].value.type = "bytes"
                             /\ BytesValue(DecodedItems[i].value.bytes) # 0})
        /\ \A k \in 1..Len(dOutcome.value) :
              /\ \A j \in 1..Len(dOutcome.value[k].valueInDecimal) :
                    dOutcome.value[k].valueInDecimal[j] \in DigitsOf(10)
              /\ NumeralValue(dOutcome.value[k].valueInDecimal, 10) >= 1
              /\ \A j \in 1..Len(dOutcome.value[k].valueInBinary) :
                    dOutcome.value[k].valueInBinary[j] \in DigitsOf(2)
              /\ NumeralValue(dOutcome.value[k].valueInBinary, 2) >= 1

\* a two-zero-byte value under a non-zero bucket was dropped beside a kept item
C1_Witness ==
    /\ DecodeSettled
    /\ HasDataArray(dPayload)
    /\ Len(DecodedItems) = 2
    /\ DecodedItems[1] = Item(Bytes(<<255>>), Bytes(<<0, 0>>))
    /\ Survives(DecodedItems[2])
    /\ Len(dOutcome.value) = 1

\* the record is the one of this item: same bucket integer, same value integer
RecordOf(rec, item) ==
    /\ \A j \in 1..Len(rec.bucketInDecimal) : rec.bucketInDecimal[j] \in DigitsOf(10)
    /\ \A j \in 1..Len(rec.valueInDecimal) : rec.valueInDecimal[j] \in DigitsOf(10)
    /\ NumeralValue(rec.bucketInDecimal, 10) = BytesValue(item.bucket.bytes)
    /\ NumeralValue(rec.valueInDecimal, 10) = BytesValue(item.value.bytes)

\* C2: decodePayload is an order-preserving filter: the k-th returned record
\* is the record of the k-th surviving item (byte-string bucket and value,
\* value not zero), none duplicated or reordered; so the output is no longer
\* than the input, and as long exactly when no item was skipped.
C2_OrderPreservingFilter ==
    (DecodeSettled /\ HasDataArray(dPayload)) =>
        LET kept == SurvivorIndices(DecodedItems)
        IN  /\ ~dOutcome.raised
            /\ Len(dOutcome.value) = Len(kept)
            /\ \A k \in 1..Len(kept) : RecordOf(dOutcome.value[k], DecodedItems[kept[k]])
            /\ Len(dOutcome.value) <= Len(DecodedItems)
            /\ (Len(dOutcome.value) = Len(DecodedItems)
                   <=> \A i \in 1..Len(DecodedItems) : Survives(DecodedItems[i]))

\* three items, the middle one zero: the records of the first and the third
C2_Witness ==
    /\ DecodeSettled
    /\ HasDataArray(dPayload)
    /\ DecodedItems = <<Item(Bytes(<<255>>), Bytes(<<1>>)),
                        Item(Bytes(<<0>>), Bytes(<<0>>)),
                        Item(Bytes(<<0, 16>>), Bytes(<<0, 16>>))>>
    /\ Len(dOutcome.value) = 2
    /\ dOutcome.value[1].bucketInDecimal = <<"2", "5", "5">>
    /\ dOutcome.value[2].bucketInDecimal = <<"1", "6">>

\* C3: decodePayload raises exactly when the base64 decoding or the CBOR
\* decoding fails; a decoded value without a `data` array, mistyped or
\* missing fields and zero values all end in a normally returned list.
C3_RaisesOnlyOnEnvelopeFailure ==
    DecodeSettled =>
        /\ dOutcome.raised <=> dPayload.tag \in {"badBase64", "badCbor"}
        /\ (dPayload.tag = "cbor" /\ ~HasDataArray(dPayload)) => dOutcome.value = <<>>

\* a decoded value without `data` array gave an empty list, not an error
C3_Witness ==
    /\ DecodeSettled
    /\ dPayload = CborOf(Envelope(DataNotArray))
    /\ dOutcome = Returned(<<>>)

\* C5: a skipped item (null or non-object, missing or non-byte-string bucket
\* or value, zero value) is skipped alone: the list returned is the list
\* returned for the array without that item, and the call does not raise.
C5_SkippedItemsAreIsolated ==
    (DecodeSettled /\ HasDataArray(dPayload)) =>
        /\ ~dOutcome.raised
        /\ \A i \in 1..Len(DecodedItems) :
              ~Survives(DecodedItems[i]) =>
                  decodePayload(CborOf(Envelope(DataArray(RemoveAt(DecodedItems, i)))))
                      = dOutcome

\* a null item between two kept items left both records
C5_Witness ==
    /\ DecodeSettled
    /\ HasDataArray(dPayload)
    /\ Len(DecodedItems) = 3
    /\ Survives(DecodedItems[1])
    /\ DecodedItems[2] = NullItem
    /\ Survives(DecodedItems[3])
    /\ Len(dOutcome.value) = 2

\* C7: every returned record has four canonical, mutually consistent text
\* fields: bucketInBinary and bucketInDecimal are the base-2 and base-10
\* numerals of the bucket bytes read big-endian ("0" for an empty bucket),
\* valueInBinary and valueInDecimal those of the non-zero value integer;
\* none has a superfluous leading zero and none is the sentinel "Error".
C7_RecordFieldsCanonical ==
    (DecodeSettled /\ HasDataArray(dPayload)) =>
        LET kept == SurvivorIndices(DecodedItems)
        IN  /\ Len(dOutcome.value) = Len(kept)
            /\ \A k \in 1..Len(kept) :
                  LET rec == dOutcome.value[k]
                      bucket == BytesValue(DecodedItems[kept[k]].bucket.bytes)
                      value == BytesValue(DecodedItems[kept[k]].value.bytes)
                  IN  /\ ErrorText \notin {rec.bucketInBinary, rec.valueInBinary,
                                           rec.bucketInDecimal, rec.valueInDecimal}
                      /\ IsCanonical(rec.bucketInBinary, 2, bucket)
                      /\ IsCanonical(rec.bucketInDecimal, 10, bucket)
                      /\ IsCanonical(rec.valueInBinary, 2, value)
                      /\ IsCanonical(rec.valueInDecimal, 10, value)
                      /\ value # 0

\* an empty bucket and a two-byte value gave "0", "0", "100000000", "256"
C7_Witness ==
    /\ DecodeSettled
    /\ dPayload = CborOf(Envelope(DataArray(<<Item(Bytes(<<>>), Bytes(<<1, 0>>))>>)))
    /\ dOutcome.value =
         <<[bucketInBinary |-> <<"0">>,
            valueInBinary |-> <<"1", "0", "0", "0", "0", "0", "0", "0", "0">>,
            bucketInDecimal |-> <<"0">>,
            valueInDecimal |-> <<"2", "5", "6">>]>>

(***************************************************************************)
(* Properties of renderOutput (SpecRender).                                *)
(***************************************************************************)
\* C9: renderOutput replaces the whole table body: a non-empty list of n
\* records leaves exactly n data rows of four cells each, in list order, and
\* no placeholder row; an empty or absent list leaves exactly one "no data"
\* row and no data rows; rows of the previous rendering never survive.
C9_RenderReplacesBody ==
    rCalled =>
        IF rArg.type = "array" /\ Len(rArg.list) > 0
        THEN /\ Len(rBody) = Len(rArg.list)
             /\ \A i \in 1..Len(rBody) :
                   /\ rBody[i].className # "no-data-row"
                   /\ Len(rBody[i].cells) = 4
                   /\ rBody[i].cells[1].content = Code(rArg.list[i].bucketInBinary)
                   /\ rBody[i].cells[2].content = Code(rArg.list[i].valueInBinary)
                   /\ rBody[i].cells[3].content = Code(rArg.list[i].bucketInDecimal)
                   /\ rBody[i].cells[4].content = Code(rArg.list[i].valueInDecimal)
        ELSE rBody = <<NoDataRow>>

\* two records were rendered over a body that held two other data rows
C9_Witness ==
    /\ rCalled
    /\ Len(rPrev) = 2
    /\ rPrev[1].className = ""
    /\ rArg.type = "array"
    /\ Len(rArg.list) = 2
    /\ rArg.list[1] # rArg.list[2]
    /\ rBody # rPrev
    /\ Len(rBody) = 2

(***************************************************************************)
(* Properties of runDecoder (Spec).                                        *)
(***************************************************************************)
Done(i) == pc[i] = "done"

AllDone == \A i \in 1..started : Done(i)

\* the table body an invocation on payload p leaves when nothing interferes
OutcomeBody(p) ==
    IF p.tag = "empty" THEN <<NoDataRow>>
    ELSE IF p.tag \in {"badBase64", "badCbor"}
    THEN <<ErrorRow(decodePayload(p).message)>>
    ELSE IF ~HasDataArray(p) \/ SurvivorIndices(p.decoded.data.items) = <<>>
    THEN <<NoDataRow>>
    ELSE [k \in 1..Len(decodePayload(p).value) |-> DataRow(decodePayload(p).value[k])]

\* bad base64, undecodable CBOR, or a decoded value that lacks a `data` array
IsStructuralOrFatal(p) ==
    \/ p.tag \in {"badBase64", "badCbor"}
    \/ p.tag = "cbor" /\ ~HasDataArray(p)

\* a well-formed payload whose items are all filtered out
IsValidButEmpty(p) ==
    /\ HasDataArray(p)
    /\ SurvivorIndices(p.decoded.data.items) = <<>>

\* C4: structural or fatal errors (bad base64, bad CBOR envelope, including a
\* decoded value that lacks a `data` array) are distinguishable from the
\* valid-but-empty case: what a completed invocation on such an input shows
\* differs from what one on a well-formed, all-filtered payload shows.
C4_ErrorsDistinguishable ==
    \A i, j \in 1..started :
        (/\ Done(i)
         /\ Done(j)
         /\ IsStructuralOrFatal(payload[i])
         /\ IsValidButEmpty(payload[j])) => shown[i] # shown[j]

\* C8: concurrent invocations are uncoordinated and last-to-resolve wins:
\* once several invocations have all completed and none was started after
\* the last decode resolved, the table shows the outcome of the invocation
\* whose decode resolved last.
C8_LastToResolveWins ==
    (/\ started >= 2
     /\ AllDone
     /\ resolveOrder # <<>>
     /\ \A i \in 1..started : startedAt[i] < Len(resolveOrder)) =>
        display = OutcomeBody(payload[resolveOrder[Len(resolveOrder)]])

\* the first invocation resolved last: the table shows its rows, not those of
\* the invocation started last, and not those of the current input
C8_Witness ==
    /\ started = 2
    /\ AllDone
    /\ resolveOrder = <<2, 1>>
    /\ startedAt = [i \in Runs |-> 0]
    /\ display = OutcomeBody(payload[1])
    /\ display # OutcomeBody(payload[2])
    /\ display # OutcomeBody(input)
    /\ input = payload[2]
    /\ Len(display) = 2

IsNoDataBody(body) == body = <<NoDataRow>>

IsErrorBody(body) ==
    /\ Len(body) = 1
    /\ body[1].className = "no-data-row"
    /\ Len(body[1].cells) = 1
    /\ body[1].cells[1].content[1] = "Error during decoding: "

\* n >= 1 data rows, all of the decode result of one invocation
IsDataBodyOfOneRun(body) ==
    /\ Len(body) >= 1
    /\ \A r \in 1..Len(body) : body[r].className = "" /\ Len(body[r].cells) = 4
    /\ \E i \in 1..started :
          /\ ~decodePayload(payload[i]).raised
          /\ body = [k \in 1..Len(decodePayload(payload[i]).value) |->
                       DataRow(decodePayload(payload[i]).value[k])]

ThreeShapes ==
    started > 0 =>
        \/ IsNoDataBody(display)
        \/ IsErrorBody(display)
        \/ IsDataBodyOfOneRun(display)

\* a step that starts an invocation
StartsRun == started' = started + 1

ClearsBeforeSuspending ==
    StartsRun =>
        /\ IsNoDataBody(display')
        /\ input.tag = "empty" =>
              /\ pc'[started'] = "done"
              /\ \A i \in Runs : pc'[i] = "awaiting" => pc[i] = "awaiting"

\* C10: in every state reachable by any interleaving of invocations and
\* decode settlements the table body is a single no-data row, a single error
\* row, or n >= 1 data rows that all come from one decode result; every
\* invocation puts the table in the no-data shape before it suspends, and
\* one with an empty payload leaves it there without starting a decode.
C10_DisplayShapes == [](ThreeShapes) /\ [][ClearsBeforeSuspending]_vars

\* the first invocation's rows are shown while the second still awaits
C10_Witness ==
    /\ started = 2
    /\ Done(1)
    /\ pc[2] = "awaiting"
    /\ Len(display) = 2
    /\ IsDataBodyOfOneRun(display)

====
